---------------------------- MODULE Spec2Model ----------------------------
(***************************************************************************)
(* Model of timer.py: the Timer class (scoped timing regions, getsum,      *)
(* getavg, get_time_estimate) over its two sample stores, InMemoryBackend  *)
(* (a defaultdict of bounded deques) and RedisBackend (Redis lists written *)
(* with LPUSH + LTRIM and read with LLEN / LRANGE).                        *)
(*                                                                         *)
(* Numbers: a sample is an integer number of clock ticks; the results of   *)
(* getsum / getavg / get_time_estimate are exact rationals (num / den).    *)
(* Strings written to Redis are records [text |-> n]: the decimal text of  *)
(* the number n.                                                           *)
(***************************************************************************)
EXTENDS Integers, Sequences, FiniteSets, TLC

VARIABLES
    measures,   \* Timer.measures: the backend object given to Timer.__init__
    py2,        \* TRUE when the interpreter is Python 2 (str(float) is '%.12g')
    mem,        \* in-memory store: identifier -> deque contents, oldest first
    memKeys,    \* in-memory store: identifiers that have an entry in the defaultdict
    redis,      \* Redis server: key -> list of strings, head (newest) first
    regions,    \* scoped regions: number -> the generator object of context()
    now,        \* the value the time source returned last
    appended,   \* history: identifier -> the values passed to append(), in order
    last,       \* the last call made and how it ended
    blinker,    \* TRUE when blinker is installed: timer_end is a Signal, not None
    sent,       \* the (ident, start, end) the receivers of timer_end were called with
    procs,      \* processes sharing the Redis store: process -> where its append() is
    reader,     \* a process calling getavg on the Redis store: where it is, what it read
    during,     \* history: the states of the list since that getavg call began
    prefix2,    \* the prefix of a second RedisBackend on the same connection
    peak        \* history: the greatest length the list of the processes had

vars == <<measures, py2, mem, memKeys, redis, regions, now, appended, last,
          blinker, sent, procs, reader, during, prefix2, peak>>

\* what the processes of the shared store and the second store add to the state
shared == <<procs, reader, during, prefix2, peak>>

----------------------------------------------------------------------------
(* Bounds of the model *)

MaxLimit == 3       \* largest store limit tried
MaxAppends == 3     \* append() calls made directly on a store in one run
MaxJobAppends == 4  \* append() calls of a run of the documented scenario
MaxTime == 1        \* time sources return 0..MaxTime
MaxRegions == 2     \* scoped regions entered in one run
MaxProcs == 2       \* processes appending to one key of the shared store
MaxPushes == 3      \* LPUSH calls of the processes in one run
MaxAppends2 == 2    \* entries the histories of the second store hold together

Idents == {"job", "io"}
Limits == -1..MaxLimit
Times == 0..MaxTime
RegionIds == 1..MaxRegions
\* the differences of two values of the time source
Samples == -MaxTime..MaxTime
\* Samples appended directly to a store; 11 has more significant digits than
\* Python 2's str() keeps.
Values == {1, 2, 11}
\* The samples 1.0 .. 4.0 and the identifier of the documented scenario
JobValues == {1, 2, 3, 4}
Job == "job"
ActionCounts == {0, 5}
Errors == {"ValueError", "StopIteration"}
Procs == 1..MaxProcs
\* Samples the processes append
PushValues == {1, 2}
\* Prefixes and identifiers of the second store: "j" + "ob" is the key "job"
\* of the first store
Prefixes2 == {"j", "x:"}
Idents2 == {"ob", "io"}

----------------------------------------------------------------------------
(* Arithmetic *)

Abs(n) == IF n < 0 THEN -n ELSE n

RECURSIVE GCD(_, _)
GCD(a, b) == IF b = 0 THEN a ELSE GCD(b, a % b)

\* The Python float n / d, kept exact.
Float(n, d) ==
    LET g == GCD(Abs(n), Abs(d))
        s == IF d < 0 THEN -1 ELSE 1
    IN  [kind |-> "float", num |-> s * (n \div g), den |-> s * (d \div g)]

None == [kind |-> "None", num |-> 0, den |-> 1]

\* sum(iterable) of Python
RECURSIVE Sum(_)
Sum(s) == IF s = <<>> THEN 0 ELSE Head(s) + Sum(Tail(s))


----------------------------------------------------------------------------
(* Python 2 / Python 3: str(value) and float(text) *)

\* Significant digits kept by Python 2's str(float).  CPython 2 keeps 12
\* ('%.12g'); the model keeps 1, so that the bounded samples reach the rounding.
StrDigits == 1

RECURSIVE NumDigits(_)
NumDigits(n) == IF n < 10 THEN 1 ELSE 1 + NumDigits(n \div 10)

RECURSIVE Pow10(_)
Pow10(k) == IF k = 0 THEN 1 ELSE 10 * Pow10(k - 1)

\* v rounded (half to even) to StrDigits significant decimal digits
RoundSig(v) ==
    LET a == Abs(v)
        nd == NumDigits(a)
    IN  IF nd <= StrDigits THEN v
        ELSE LET p == Pow10(nd - StrDigits)
                 q == a \div p
                 r == a % p
                 up == (2 * r > p) \/ (2 * r = p /\ q % 2 = 1)
                 m == (IF up THEN q + 1 ELSE q) * p
             IN  IF v < 0 THEN -m ELSE m

\* str(value), line 46: the shortest text that reads back as value on
\* Python 3, the value rounded to 12 significant digits on Python 2.
Str(v) == [text |-> IF py2 THEN RoundSig(v) ELSE v]

\* float(value), line 43
ParseFloat(s) == s.text

----------------------------------------------------------------------------
(* InMemoryBackend: defaultdict(lambda: deque(maxlen=limit)) *)

\* A deque that never drops a sample
DequeAppendUnbounded(d, v, L) == Append(d, v)

\* deque(maxlen=L).append(v), L >= 0: append on the right, then drop from the
\* left while the deque is longer than L.
DequeAppend(d, v, L) ==
    LET a == Append(d, v)
    IN  IF Len(a) > L THEN Tail(a) ELSE a

----------------------------------------------------------------------------
(* Redis lists *)

\* prefix='' of RedisBackend.__init__
Prefix == ""

\* self.prefix + key
Key(ident) == Prefix \o ident

\* A second store that builds its keys with a fixed prefix, not its own
Key2FixedPrefix(ident) == "j" \o ident

\* self.prefix + key of the second store
Key2(ident) == prefix2 \o ident

Keys == {Key(i) : i \in Idents} \cup {p \o i : p \in Prefixes2, i \in Idents2}

\* RPUSH key s: the new entry goes to the tail
RPush(list, s) == list \o <<s>>

\* LPUSH key s
LPush(list, s) == <<s>> \o list

\* LTRIM key start stop, with Redis's handling of negative and out-of-range
\* indexes; an emptied list is a deleted key.
LTrim(list, start, stop) ==
    LET llen == Len(list)
        s0 == IF start < 0 THEN llen + start ELSE start
        e0 == IF stop < 0 THEN llen + stop ELSE stop
        s1 == IF s0 < 0 THEN 0 ELSE s0
    IN  IF s1 > e0 \/ s1 >= llen THEN <<>>
        ELSE LET e1 == IF e0 >= llen THEN llen - 1 ELSE e0
             IN  SubSeq(list, s1 + 1, e1 + 1)

\* The first call of append(value), line 46, sent twice
PushStepTwice(list, v) == LPush(LPush(list, Str(v)), Str(v))

\* The first call of append(value): self.redis.lpush(self.key, str(value))
PushStep(list, v) == LPush(list, Str(v))

\* A second call that removes only the oldest entry of a list over the limit
TrimStepPopsOne(list, L) ==
    IF Len(list) > L /\ L >= 0 THEN SubSeq(list, 1, Len(list) - 1) ELSE list

\* A second call that trims to indexes 0..limit
TrimStepKeepsOneMore(list, L) == LTrim(list, 0, L)

\* The second call of append(value): self.redis.ltrim(self.key, 0, self.limit - 1)
TrimStep(list, L) == LTrim(list, 0, L - 1)

\* An append that trims to indexes 0..limit, one entry too many
RedisAppendTrimsLate(list, v, L) == LTrim(LPush(list, Str(v)), 0, L)

\* RedisBackendItem.append(value)
RedisAppend(list, v, L) == LTrim(LPush(list, Str(v)), 0, L - 1)

----------------------------------------------------------------------------
(* The backend object held in Timer.measures *)

\* Timer() keeps the default argument, the InMemoryBackend function itself.
DefaultBackend == [kind |-> "function", limit |-> 0]
\* InMemoryBackend(limit)
MemBackend(L) == [kind |-> "mem", limit |-> L]
\* RedisBackend(redis, limit=limit)
RedisBackend(L) == [kind |-> "redis", limit |-> L]

Backends == {DefaultBackend} \cup {MemBackend(L) : L \in Limits}
                             \cup {RedisBackend(L) : L \in Limits}

\* ident in self.measures
Contains(ident) ==
    IF measures.kind = "mem" THEN ident \in memKeys
    ELSE redis[Key(ident)] # <<>>

\* the samples that iterating self.measures[ident] yields
Iterate(ident) ==
    IF measures.kind = "mem" THEN mem[ident]
    ELSE [i \in 1..Len(redis[Key(ident)]) |-> ParseFloat(redis[Key(ident)][i])]

\* len(self.measures[ident])
Length(ident) ==
    IF measures.kind = "mem" THEN Len(mem[ident])
    ELSE Len(redis[Key(ident)])

\* The exception that self.measures[ident].append(x) raises, "" if none:
\* a function is not subscriptable; deque(maxlen=limit) rejects limit < 0
\* when the defaultdict first creates the entry.
AppendExc ==
    IF measures.kind = "function" THEN "TypeError"
    ELSE IF measures.kind = "mem" /\ measures.limit < 0 THEN "ValueError"
    ELSE ""

\* self.measures[ident].append(v), when it does not raise
StoreAppend(ident, v) ==
    /\ IF measures.kind = "mem"
       THEN /\ mem' = [mem EXCEPT ![ident] = DequeAppend(@, v, measures.limit)]
            /\ memKeys' = memKeys \cup {ident}
            /\ UNCHANGED redis
       ELSE /\ redis' = [redis EXCEPT ![Key(ident)] = RedisAppend(@, v, measures.limit)]
            /\ UNCHANGED <<mem, memKeys>>
    /\ appended' = [appended EXCEPT ![ident] = Append(@, v)]

----------------------------------------------------------------------------
(* Timer: statistics *)

\* ident not in self.measures or len(self.measures[ident]) == 0
NoSamples(ident) == ~Contains(ident) \/ Length(ident) = 0

\* An average computed with Python 2's integer division
GetavgFloorDivision(ident) ==
    IF NoSamples(ident) THEN Float(0, 1)
    ELSE Float(Sum(Iterate(ident)) \div Length(ident), 1)

\* Timer.getavg(ident), for a backend that can be queried
GetavgValue(ident) ==
    IF NoSamples(ident) THEN Float(0, 1)
    ELSE Float(Sum(Iterate(ident)), Length(ident))

\* Timer.getsum(ident), for a backend that can be queried
GetsumValue(ident) ==
    IF NoSamples(ident) THEN Float(0, 1)
    ELSE Float(Sum(Iterate(ident)), 1)

\* An estimate that is 0.0 instead of None when there is no sample
GetTimeEstimateNeverNone(ident, actions) ==
    IF NoSamples(ident) THEN Float(0, 1)
    ELSE Float(Sum(Iterate(ident)) * actions, Length(ident))

\* An estimate computed from the sum instead of the average
GetTimeEstimateOfSum(ident, actions) ==
    IF NoSamples(ident) THEN None
    ELSE Float(Sum(Iterate(ident)) * actions, 1)

\* Timer.get_time_estimate(ident, actions), for a backend that can be queried
GetTimeEstimateValue(ident, actions) ==
    IF NoSamples(ident) THEN None
    ELSE LET avg == GetavgValue(ident)
         IN  Float(avg.num * actions, avg.den)

\* The exception that 'ident not in self.measures' raises, "" if none:
\* a function is not a container.
QueryExc == IF measures.kind = "function" THEN "TypeError" ELSE ""

\* The keys of a defaultdict after d[ident]: a missing key is created
Subscript(keys, ident) == keys \cup {ident}

\* A test that evaluates len(self.measures[ident]) for every identifier
QueryKeysEager(ident) ==
    IF measures.kind = "mem" THEN Subscript(memKeys, ident) ELSE memKeys

\* The keys of the in-memory store after the test of getavg, getsum and
\* get_time_estimate, "ident not in self.measures or
\* len(self.measures[ident]) == 0", and after the iteration that follows
\* it: self.measures[ident] is evaluated only when ident is in the store
QueryKeys(ident) ==
    IF measures.kind = "mem" /\ Contains(ident)
    THEN Subscript(memKeys, ident) ELSE memKeys

----------------------------------------------------------------------------
(* Timer: the scoped region, context() *)

\* A generator object of context(): not yet created, suspended at the yield
\* of line 97 with its ident and start, or finished.
NewRegion == [st |-> "new", ident |-> "", start |-> 0]
OpenRegion(ident, start) == [st |-> "open", ident |-> ident, start |-> start]
DoneRegion == [st |-> "done", ident |-> "", start |-> 0]

\* start - end
ElapsedReversed(start, end) == start - end

\* end - start of line 99
Elapsed(start, end) == end - start

\* A generator that catches what is thrown into it at the yield
ThrowAtYieldSuppressed(e) == ""

\* The exception that leaves the generator when the body's exception e is
\* thrown into it at the bare 'yield' of line 97: no try encloses the yield,
\* so e itself, and contextmanager re-raises it from the with statement.
ThrowAtYield(e) == e

\* The positional arguments of timer_end.send(self, ident, start, end)
SendArgs == 4

\* The exception that blinker's Signal.send(*sender, **kwargs) raises when
\* called with nargs positional arguments, "" if none: send accepts the
\* sender as its only positional argument, the data goes in keywords.
SendExc(nargs) == IF nargs > 1 THEN "TypeError" ELSE ""

\* Whether the lines after the yield run on leaving the region: only when the generator
\* is resumed by next(), that is when the body raised nothing.
RunsExitCode(bodyExc) == bodyExc = ""

----------------------------------------------------------------------------
(* Calls and their outcome *)

\* op(ident, n) ended by raising exc or, when exc = "", by returning value;
\* bodyExc is the exception the body of a scoped region raised, "" if none.
Call(op, ident, n, bodyExc, exc, value) ==
    [op |-> op, ident |-> ident, n |-> n, bodyExc |-> bodyExc, exc |-> exc,
     value |-> value]

NoCall == Call("none", "", 0, "", "", None)

\* the number of append() calls made so far
RECURSIVE TotalLen(_)
TotalLen(S) ==
    IF S = {} THEN 0
    ELSE LET i == CHOOSE x \in S : TRUE
         IN  Len(appended[i]) + TotalLen(S \ {i})

TotalAppended == TotalLen(Idents)

\* pc: the Redis command of getavg last answered; sum: what sum() returned;
\* value, exc: what the call returned or raised; rangeAt, lenAt: history,
\* the positions in during of the list states LRANGE and the last LLEN read
IdleReader == [pc |-> "idle", sum |-> 0, value |-> None, exc |-> "",
               rangeAt |-> 0, lenAt |-> 0]

\* The state after construction, the second store having a prefix of P
InitWith(P) ==
    /\ blinker \in BOOLEAN
    /\ sent = <<>>
    /\ procs = [p \in Procs |-> "idle"]
    /\ reader = IdleReader
    /\ during = <<>>
    /\ prefix2 \in P
    /\ peak = 0
    /\ measures \in Backends
    \* only RedisBackendItem.append calls str(): the interpreter is tried
    \* both ways with a Redis store
    /\ py2 \in (IF measures.kind = "redis" THEN BOOLEAN ELSE {FALSE})
    /\ mem = [i \in Idents |-> <<>>]
    /\ memKeys = {}
    /\ redis = [k \in Keys |-> <<>>]
    /\ regions = [r \in RegionIds |-> NewRegion]
    /\ now = 0
    /\ appended = [i \in Idents |-> <<>>]
    /\ last = NoCall

Init == InitWith({"x:"})

\* with timer(ident, method): entry, lines 93-97; method() returns t
Enter(r, ident, t) ==
    /\ regions[r].st = "new"
    /\ IF r = 1 THEN TRUE ELSE regions[r - 1].st # "new"
    /\ now' = t
    /\ regions' = [regions EXCEPT ![r] = OpenRegion(ident, t)]
    /\ last' = Call("enter", ident, 0, "", "", None)
    /\ UNCHANGED <<measures, py2, mem, memKeys, redis, appended>>
    /\ UNCHANGED <<blinker, sent, shared>>

\* the exit of region r, lines 97-101, after its body raised bodyExc ("" when
\* it raised nothing); method() returns t if it is called
Exit(r, t, bodyExc) ==
    /\ regions[r].st = "open"
    /\ LET ident == regions[r].ident
           start == regions[r].start
           bodyOut == IF bodyExc = "" THEN "" ELSE ThrowAtYield(bodyExc)
       IN  IF RunsExitCode(bodyExc)
           THEN /\ now' = t
                /\ IF AppendExc # ""
                   THEN /\ last' = Call("exit", ident, 0, bodyExc, AppendExc, None)
                        /\ UNCHANGED <<mem, memKeys, redis, appended, sent>>
                   ELSE /\ StoreAppend(ident, Elapsed(start, t))
                        /\ IF blinker /\ SendExc(SendArgs) # ""
                           THEN /\ last' = Call("exit", ident, 0, bodyExc,
                                                SendExc(SendArgs), None)
                                /\ UNCHANGED sent
                           ELSE /\ last' = Call("exit", ident, 0, bodyExc, bodyOut, None)
                                /\ sent' = IF blinker
                                           THEN Append(sent, <<ident, start, t>>)
                                           ELSE sent
           ELSE /\ last' = Call("exit", ident, 0, bodyExc, bodyOut, None)
                /\ UNCHANGED <<now, mem, memKeys, redis, appended, sent>>
    /\ regions' = [regions EXCEPT ![r] = DoneRegion]
    /\ UNCHANGED <<measures, py2, blinker, shared>>

\* the body of region r ends without an exception
ExitNormal(r, t) == Exit(r, t, "")

\* the body of region r raises e: contextmanager throws e into the generator
ExitRaise(r, e) == \E t \in Times : Exit(r, t, e)

\* self.measures[ident].append(v) made directly on the store, in a run of at
\* most max such calls
AppendSample(ident, v, max) ==
    /\ IF AppendExc # ""
       THEN /\ last' = Call("append", ident, 0, "", AppendExc, None)
            /\ UNCHANGED <<mem, memKeys, redis, appended>>
       ELSE /\ TotalAppended < max
            /\ StoreAppend(ident, v)
            /\ last' = Call("append", ident, 0, "", "", None)
    /\ UNCHANGED <<measures, py2, regions, now, blinker, sent, shared>>

\* Timer.getavg(ident)
Getavg(ident) ==
    /\ last' = IF QueryExc # ""
               THEN Call("getavg", ident, 0, "", QueryExc, None)
               ELSE Call("getavg", ident, 0, "", "", GetavgValue(ident))
    /\ memKeys' = QueryKeys(ident)
    /\ UNCHANGED <<measures, py2, mem, redis, regions, now, appended>>
    /\ UNCHANGED <<blinker, sent, shared>>

\* Timer.getsum(ident)
Getsum(ident) ==
    /\ last' = IF QueryExc # ""
               THEN Call("getsum", ident, 0, "", QueryExc, None)
               ELSE Call("getsum", ident, 0, "", "", GetsumValue(ident))
    /\ memKeys' = QueryKeys(ident)
    /\ UNCHANGED <<measures, py2, mem, redis, regions, now, appended>>
    /\ UNCHANGED <<blinker, sent, shared>>

\* Timer.get_time_estimate(ident, actions)
GetTimeEstimate(ident, actions) ==
    /\ last' = IF QueryExc # ""
               THEN Call("get_time_estimate", ident, actions, "", QueryExc, None)
               ELSE Call("get_time_estimate", ident, actions, "", "",
                         GetTimeEstimateValue(ident, actions))
    /\ memKeys' = QueryKeys(ident)
    /\ UNCHANGED <<measures, py2, mem, redis, regions, now, appended>>
    /\ UNCHANGED <<blinker, sent, shared>>

\* A program that times nested and overlapping regions
Next ==
    \/ \E r \in RegionIds, i \in Idents, t \in Times : Enter(r, i, t)
    \/ \E r \in RegionIds, t \in Times : ExitNormal(r, t)
    \/ \E r \in RegionIds, e \in Errors : ExitRaise(r, e)

Spec == Init /\ [][Next]_vars

\* A program that appends samples to the store and reads statistics
NextStore ==
    \/ \E i \in Idents, v \in Values : AppendSample(i, v, MaxAppends)
    \/ \E i \in Idents : Getavg(i)
    \/ \E i \in Idents : Getsum(i)
    \/ \E i \in Idents, n \in ActionCounts : GetTimeEstimate(i, n)

SpecStore == Init /\ [][NextStore]_vars

\* A program that appends the scenario's samples under "job" and reads its
\* statistics
NextJob ==
    \/ \E v \in JobValues : AppendSample(Job, v, MaxJobAppends)
    \/ Getavg(Job)
    \/ Getsum(Job)
    \/ \E n \in ActionCounts : GetTimeEstimate(Job, n)

SpecJob == Init /\ [][NextJob]_vars

----------------------------------------------------------------------------
(* Processes sharing one key of the Redis store *)

\* The states of the list of "job" since the getavg call of the reader
\* began, once another process has changed it to list
Seen(list) ==
    IF reader.pc \in {"idle", "done"} THEN during ELSE Append(during, list)

\* process p runs line 46 of append(v) on the history of "job"
Push(p, v) ==
    /\ measures.kind = "redis"
    /\ procs[p] = "idle"
    /\ Len(appended[Job]) < MaxPushes
    /\ LET list == PushStep(redis[Key(Job)], v)
       IN  /\ redis' = [redis EXCEPT ![Key(Job)] = list]
           /\ peak' = IF Len(list) > peak THEN Len(list) ELSE peak
           /\ during' = Seen(list)
    /\ procs' = [procs EXCEPT ![p] = "pushed"]
    /\ appended' = [appended EXCEPT ![Job] = Append(@, v)]
    /\ last' = Call("lpush", Job, 0, "", "", None)
    /\ UNCHANGED <<measures, py2, mem, memKeys, regions, now>>
    /\ UNCHANGED <<blinker, sent, reader, prefix2>>

\* process p runs line 47 of its append and returns from it
Trim(p) ==
    /\ measures.kind = "redis"
    /\ procs[p] = "pushed"
    /\ LET list == TrimStep(redis[Key(Job)], measures.limit)
       IN  /\ redis' = [redis EXCEPT ![Key(Job)] = list]
           /\ during' = Seen(list)
    /\ procs' = [procs EXCEPT ![p] = "idle"]
    /\ last' = Call("append", Job, 0, "", "", None)
    /\ UNCHANGED <<measures, py2, mem, memKeys, regions, now, appended>>
    /\ UNCHANGED <<blinker, sent, reader, prefix2, peak>>

\* process p dies between line 46 and line 47
Crash(p) ==
    /\ measures.kind = "redis"
    /\ procs[p] = "pushed"
    /\ procs' = [procs EXCEPT ![p] = "crashed"]
    /\ last' = Call("crash", Job, 0, "", "", None)
    /\ UNCHANGED <<measures, py2, mem, memKeys, redis, regions, now, appended>>
    /\ UNCHANGED <<blinker, sent, reader, during, prefix2, peak>>

\* An iteration that reads LRANGE 1 -1 and misses the newest entry
ParseListMissesNewest(list) == [i \in 1..(Len(list) - 1) |-> ParseFloat(list[i + 1])]

\* The float(value) of every entry of a Redis list
ParseList(list) == [i \in 1..Len(list) |-> ParseFloat(list[i])]

\* getavg("job") by the reader, line 108: ident not in self.measures, EXISTS
ReadExists ==
    /\ measures.kind = "redis"
    /\ reader.pc \in {"idle", "done"}
    /\ during' = <<redis[Key(Job)]>>
    /\ reader' = IF redis[Key(Job)] = <<>>
                 THEN [IdleReader EXCEPT !.pc = "done", !.value = Float(0, 1),
                                         !.lenAt = 1]
                 ELSE [IdleReader EXCEPT !.pc = "exists"]
    /\ last' = IF reader'.pc = "done"
               THEN Call("getavg", Job, 0, "", "", reader'.value) ELSE last
    /\ UNCHANGED <<measures, py2, mem, memKeys, redis, regions, now, appended>>
    /\ UNCHANGED <<blinker, sent, procs, prefix2, peak>>

\* line 108: len(self.measures[ident]) == 0, LLEN
ReadLenFirst ==
    /\ reader.pc = "exists"
    /\ reader' = IF Len(redis[Key(Job)]) = 0
                 THEN [reader EXCEPT !.pc = "done", !.value = Float(0, 1),
                                     !.lenAt = Len(during)]
                 ELSE [reader EXCEPT !.pc = "llen"]
    /\ last' = IF reader'.pc = "done"
               THEN Call("getavg", Job, 0, "", "", reader'.value) ELSE last
    /\ UNCHANGED <<measures, py2, mem, memKeys, redis, regions, now, appended>>
    /\ UNCHANGED <<blinker, sent, procs, during, prefix2, peak>>

\* line 110: sum(self.measures[ident]), LRANGE 0 -1 and float() of each entry
ReadRange ==
    /\ reader.pc = "llen"
    /\ reader' = [reader EXCEPT !.pc = "lrange",
                                !.sum = Sum(ParseList(redis[Key(Job)])),
                                !.rangeAt = Len(during)]
    /\ UNCHANGED <<measures, py2, mem, memKeys, redis, regions, now, appended, last>>
    /\ UNCHANGED <<blinker, sent, procs, during, prefix2, peak>>

\* line 110: len(self.measures[ident]), LLEN, and the division
ReadLenSecond ==
    /\ reader.pc = "lrange"
    /\ LET n == Len(redis[Key(Job)])
       IN  /\ reader' = IF n = 0
                        THEN [reader EXCEPT !.pc = "done", !.lenAt = Len(during),
                                            !.exc = "ZeroDivisionError"]
                        ELSE [reader EXCEPT !.pc = "done", !.lenAt = Len(during),
                                            !.value = Float(reader.sum, n)]
           /\ last' = Call("getavg", Job, 0, "", reader'.exc, reader'.value)
    /\ UNCHANGED <<measures, py2, mem, memKeys, redis, regions, now, appended>>
    /\ UNCHANGED <<blinker, sent, procs, during, prefix2, peak>>

\* Every Timer of the processes holds a RedisBackend; the processes call
\* append and getavg, they enter no region and send no signal
InitShared == Init /\ measures.kind = "redis" /\ ~blinker

NextProcs ==
    \/ \E p \in Procs, v \in PushValues : Push(p, v)
    \/ \E p \in Procs : Trim(p)
    \/ \E p \in Procs : Crash(p)

SpecProcs == InitShared /\ [][NextProcs]_vars

NextReader ==
    \/ \E p \in Procs, v \in PushValues : Push(p, v)
    \/ \E p \in Procs : Trim(p)
    \/ ReadExists
    \/ ReadLenFirst
    \/ ReadRange
    \/ ReadLenSecond

SpecReader == InitShared /\ [][NextReader]_vars

----------------------------------------------------------------------------
(* One sequence of appends run against both stores *)

\* append(v) under ident on a Timer holding RedisBackend(redis, limit=L),
\* the Timer of measures, and on a second Timer holding InMemoryBackend(L),
\* whose dictionary is mem; deque(maxlen=L) raises ValueError when L < 0
PairAppend(ident, v) ==
    /\ measures.kind = "redis"
    /\ TotalAppended < MaxAppends
    /\ redis' = [redis EXCEPT ![Key(ident)] = RedisAppend(@, v, measures.limit)]
    /\ IF measures.limit < 0
       THEN UNCHANGED <<mem, memKeys>>
       ELSE /\ mem' = [mem EXCEPT ![ident] = DequeAppend(@, v, measures.limit)]
            /\ memKeys' = memKeys \cup {ident}
    /\ appended' = [appended EXCEPT ![ident] = Append(@, v)]
    /\ last' = Call("append", ident, 0, "",
                    IF measures.limit < 0 THEN "ValueError" ELSE "", None)
    /\ UNCHANGED <<measures, py2, regions, now, blinker, sent, shared>>

NextPair == \E i \in Idents, v \in Values : PairAppend(i, v)

SpecPair == InitShared /\ [][NextPair]_vars

----------------------------------------------------------------------------
(* Two Redis stores with different prefixes on one connection *)

\* append(v) under ident on the second store, RedisBackend(redis, prefix2,
\* limit), which shares the connection of the store of measures
Append2(ident, v) ==
    /\ measures.kind = "redis"
    /\ Len(redis[Key2("ob")]) + Len(redis[Key2("io")]) < MaxAppends2
    /\ redis' = [redis EXCEPT ![Key2(ident)] = RedisAppend(@, v, measures.limit)]
    /\ last' = Call("append2", ident, 0, "", "", None)
    /\ UNCHANGED <<measures, py2, mem, memKeys, regions, now, appended>>
    /\ UNCHANGED <<blinker, sent, shared>>

\* The first store has the default prefix '', the second one of Prefixes2
InitPrefix == InitWith(Prefixes2) /\ ~blinker

NextPrefix ==
    \/ \E i \in Idents, v \in PushValues : AppendSample(i, v, MaxAppends)
    \/ \E i \in Idents2, v \in PushValues : Append2(i, v)

SpecPrefix == InitPrefix /\ [][NextPrefix]_vars

----------------------------------------------------------------------------
(* Vocabulary of the properties *)

\* Timer.measures is a store (not the InMemoryBackend function itself)
HasStore == measures.kind \in {"mem", "redis"}

Limit == measures.limit

\* the last n elements of s
LastN(s, n) == SubSeq(s, Len(s) - n + 1, Len(s))

Reverse(s) == [i \in 1..Len(s) |-> s[Len(s) + 1 - i]]

\* The samples the store holds for ident, oldest first: the deque as it is,
\* the Redis list (newest first) parsed and reversed.
Retained(ident) ==
    IF measures.kind = "mem" THEN mem[ident]
    ELSE Reverse([i \in 1..Len(redis[Key(ident)]) |->
                     ParseFloat(redis[Key(ident)][i])])

\* The sample that iterating the store yields for an appended v: v itself
\* from the deque, float(str(v)) from Redis.
ReadBack(v) == IF measures.kind = "redis" THEN ParseFloat(Str(v)) ELSE v

IsQuery(op) == op \in {"getavg", "getsum", "get_time_estimate"}

Zero == Float(0, 1)

----------------------------------------------------------------------------
(* C1 *)

\* C1 as stated: once more than L >= 1 values have been appended under an
\* identifier, its history has length L and is exactly the L values appended
\* last, in the in-memory store and in the Redis store alike.
C1_RetainsExactlyMostRecent ==
    \A i \in Idents :
        (HasStore /\ Limit >= 1 /\ Len(appended[i]) > Limit) =>
            /\ Len(Retained(i)) = Limit
            /\ Retained(i) = LastN(appended[i], Limit)

\* C1 amended: once more than L >= 1 values have been appended under an
\* identifier, its history has length L and holds the L values appended last,
\* oldest evicted first: the values themselves in the in-memory store and in
\* the Redis store on Python 3, the values rounded to the significant digits
\* of str() in the Redis store on Python 2.
C1_RetainsMostRecent ==
    \A i \in Idents :
        (HasStore /\ Limit >= 1 /\ Len(appended[i]) > Limit) =>
            /\ Len(Retained(i)) = Limit
            /\ LET recent == LastN(appended[i], Limit)
               IN  IF measures.kind = "redis" /\ py2
                   THEN Retained(i) = [k \in 1..Limit |-> RoundSig(recent[k])]
                   ELSE Retained(i) = recent

\* More than L appends were made under "job" on a Redis store of limit 2
\* running Python 2, the evicted value differs from the retained ones and a
\* retained value was rounded by str().
C1_Witness ==
    /\ measures = RedisBackend(2)
    /\ py2
    /\ appended["job"] = <<1, 11, 2>>
    /\ Retained("job") = <<10, 2>>

----------------------------------------------------------------------------
(* C2 *)

\* C2: a scoped region whose body raises still appends exactly one sample
\* under its identifier (for a store with limit >= 1).
C2_ErrorExitAppendsSample ==
    [][\A r \in RegionIds :
          (/\ HasStore /\ Limit >= 1
           /\ regions[r].st = "open" /\ regions'[r].st = "done"
           /\ last'.bodyExc # "")
          => Len(appended'[regions[r].ident]) = Len(appended[regions[r].ident]) + 1]_vars

----------------------------------------------------------------------------
(* C3 *)

\* C3: when the body of a scoped region raises, leaving the region raises
\* that same exception: it is never suppressed (the with statement does not
\* end normally) and never replaced by another exception.
C3_BodyErrorPropagates ==
    (last.op = "exit" /\ last.bodyExc # "") => last.exc = last.bodyExc

\* A region whose body raised StopIteration has been left.
C3_Witness ==
    /\ last.op = "exit"
    /\ last.bodyExc = "StopIteration"
    /\ last.exc = "StopIteration"

----------------------------------------------------------------------------
(* C4 *)

\* C4: on a Timer with a store, for an identifier with no retained sample
\* getsum and getavg return 0.0 and get_time_estimate returns None (not 0.0)
\* whatever the action count; for an identifier with a retained sample
\* get_time_estimate never returns None.
C4_EmptyStatistics ==
    (HasStore /\ IsQuery(last.op)) =>
        /\ last.exc = ""
        /\ Retained(last.ident) = <<>> =>
              /\ last.op \in {"getsum", "getavg"} => last.value = Zero
              /\ last.op = "get_time_estimate" =>
                    (last.value = None /\ last.value # Zero)
        /\ (Retained(last.ident) # <<>> /\ last.op = "get_time_estimate") =>
              (last.value # None /\ last.value.kind = "float")

\* get_time_estimate was asked for "io", never appended to, while "job" has
\* samples.
C4_Witness ==
    /\ HasStore
    /\ appended["io"] = <<>>
    /\ Retained("job") # <<>>
    /\ last.op = "get_time_estimate"
    /\ last.ident = "io"
    /\ last.n = 5
    /\ last.value = None

----------------------------------------------------------------------------
(* C5 *)

\* C5: for an identifier with a retained sample, getsum is the sum of exactly
\* the samples the store retains and getavg is that sum divided by their
\* number; the retained samples are the last L values appended (as the store
\* reads them back) when L >= 1.
C5_AverageIsSumOverLength ==
    \A i \in Idents :
        (HasStore /\ Len(Retained(i)) > 0) =>
            LET kept == Retained(i)
            IN  /\ (last.op = "getsum" /\ last.ident = i) =>
                      last.value = Float(Sum(kept), 1)
                /\ (last.op = "getavg" /\ last.ident = i) =>
                      /\ last.value.kind = "float"
                      /\ last.value.num * Len(kept) = Sum(kept) * last.value.den
                /\ Limit >= 1 =>
                      /\ Len(kept) = IF Len(appended[i]) < Limit
                                     THEN Len(appended[i]) ELSE Limit
                      /\ \A k \in 1..Len(kept) :
                            kept[k] = ReadBack(LastN(appended[i], Len(kept))[k])

\* getavg was asked for "job" after an eviction; the average of the two
\* retained samples is 3/2.
C5_Witness ==
    /\ measures = MemBackend(2)
    /\ appended["job"] = <<11, 1, 2>>
    /\ last.op = "getavg"
    /\ last.ident = "job"
    /\ last.value = Float(3, 2)

----------------------------------------------------------------------------
(* C6 *)

\* C6: on a Timer constructed without a backend argument a scoped region
\* whose body raises nothing completes and has appended a sample under its
\* identifier.
C6_DefaultTimerRecords ==
    (measures = DefaultBackend /\ last.op = "exit" /\ last.bodyExc = "") =>
        (last.exc = "" /\ Len(appended[last.ident]) >= 1)

----------------------------------------------------------------------------
(* C7 *)

\* C7: no store with limit <= 0 exists to accept the sample of a region.
C7_NoStoreWithoutCapacity ==
    (HasStore /\ last.op = "exit" /\ last.exc = "") => Limit >= 1

----------------------------------------------------------------------------
(* C8 *)

\* C8: in the in-memory store every history holds at most L samples, after
\* any appends and queries.
C8_MemoryBounded ==
    measures.kind = "mem" => \A i \in memKeys : Len(mem[i]) <= Limit

\* The in-memory store of limit 2 is full for "job" after three appends.
C8_Witness ==
    /\ measures = MemBackend(2)
    /\ Len(appended["job"]) = 3
    /\ Len(mem["job"]) = 2

----------------------------------------------------------------------------
(* C9 *)

\* C9: entering a region records the time source's value as its start and
\* changes nothing in the store; a region left normally appends exactly one
\* sample, end - start of its own entry and exit, under its own identifier
\* (the newest sample of that history, as the store reads it back, when
\* L >= 1) and changes no other history, whatever other regions are open.
C9_OneSamplePerRegion ==
    [][\A r \in RegionIds :
          /\ (regions[r].st = "new" /\ regions'[r].st = "open") =>
                /\ UNCHANGED <<mem, memKeys, redis, appended>>
                /\ regions'[r].start = now'
          /\ (/\ regions[r].st = "open" /\ regions'[r].st = "done"
              /\ last'.bodyExc = "" /\ last'.exc = "") =>
                \E i \in Idents, sample \in Samples :
                    /\ i = regions[r].ident
                    /\ sample = now' - regions[r].start
                    /\ appended' = [appended EXCEPT ![i] = Append(@, sample)]
                    /\ \A j \in Idents \ {i} : Retained(j)' = Retained(j)
                    /\ Limit >= 1 =>
                          /\ Retained(i)' # <<>>
                          /\ Retained(i)'[Len(Retained(i)')] = ReadBack(sample)]_vars

\* Two regions on "job" were both left normally, with samples 1 and -1.
C9_Witness ==
    /\ HasStore
    /\ Limit >= 2
    /\ \A r \in RegionIds : regions[r].st = "done"
    /\ appended["job"] = <<1, -1>>
    /\ Retained("job") = <<1, -1>>
    /\ last.op = "exit"
    /\ last.exc = ""

----------------------------------------------------------------------------
(* C10 *)

\* C10: for an identifier with a retained sample get_time_estimate(id, n) is
\* the average of the retained samples times n; with L = 3 and 1, 2, 3, 4
\* appended the retained samples are 2, 3, 4, getsum is 9, getavg is 3 and
\* get_time_estimate(id, 5) is 15.
C10_EstimateIsAverageTimesActions ==
    (HasStore /\ last.ident = Job /\ Retained(Job) # <<>>) =>
        LET kept == Retained(Job)
        IN  /\ last.op = "get_time_estimate" =>
                  /\ last.value.kind = "float"
                  /\ last.value.num * Len(kept) = Sum(kept) * last.n * last.value.den
            /\ (Limit = 3 /\ appended[Job] = <<1, 2, 3, 4>>) =>
                  /\ kept = <<2, 3, 4>>
                  /\ last.op = "getsum" => last.value = Float(9, 1)
                  /\ last.op = "getavg" => last.value = Float(3, 1)
                  /\ (last.op = "get_time_estimate" /\ last.n = 5) =>
                        last.value = Float(15, 1)

\* The documented scenario on the Redis store: get_time_estimate("job", 5)
\* returned 15.
C10_Witness ==
    /\ measures = RedisBackend(3)
    /\ appended[Job] = <<1, 2, 3, 4>>
    /\ last.op = "get_time_estimate"
    /\ last.n = 5
    /\ last.value = Float(15, 1)


-----------------------------------------------------------------------------
(* C11 *)

\* C11: every scoped region that is left on a store with limit >= 0 has its
\* sample appended and, when timer_end is a signal, publishes exactly one
\* notification carrying its identifier, start and end; when timer_end is
\* None it publishes nothing; leaving the region raises nothing but what the
\* body raised.
C11_EveryRegionNotifies ==
    [][\A r \in RegionIds :
          (/\ HasStore /\ Limit >= 0
           /\ regions[r].st = "open" /\ regions'[r].st = "done")
          => \E i \in Idents, start \in Times :
                /\ i = regions[r].ident
                /\ start = regions[r].start
                /\ Len(appended'[i]) = Len(appended[i]) + 1
                /\ last'.exc = last'.bodyExc
                /\ sent' = IF blinker THEN Append(sent, <<i, start, now'>>)
                                      ELSE sent]_vars


-----------------------------------------------------------------------------
(* C12, C13, C14 *)

\* The list of "job" in Redis, newest first
SharedList == redis[Key(Job)]

\* The strings pushed to it, oldest first
Pushed == [i \in 1..Len(appended[Job]) |-> Str(appended[Job][i])]

\* C12: on the Redis store with limit L >= 1, when an append has just
\* completed its trim, a process has crashed between its push and its trim
\* and no other append is between its two steps, the list is no longer than
\* L and holds the most recently pushed values, newest first (L of them when
\* that many were pushed).
C12_HealsAfterCrash ==
    (/\ measures.kind = "redis" /\ Limit >= 1
     /\ last.op = "append"
     /\ \E q \in Procs : procs[q] = "crashed"
     /\ \A p \in Procs : procs[p] # "pushed")
    => /\ Len(SharedList) <= Limit
       /\ SharedList = Reverse(LastN(Pushed, IF Len(Pushed) < Limit
                                              THEN Len(Pushed) ELSE Limit))

\* A process crashed leaving the list longer than its limit of 1, and a
\* later append has brought it back to one entry, the last one pushed.
C12_Witness ==
    /\ measures.kind = "redis" /\ Limit = 1
    /\ last.op = "append"
    /\ procs[1] = "crashed" /\ procs[2] = "idle"
    /\ peak = 2
    /\ Len(appended[Job]) = 3
    /\ SharedList = <<Str(appended[Job][3])>>

\* C13: on the Redis store with limit L >= 1, whenever every push has been
\* followed by its own trim (no process is between the two steps or has
\* crashed there), the list is no longer than L.
C13_QuiescentWithinLimit ==
    (/\ measures.kind = "redis" /\ Limit >= 1
     /\ \A p \in Procs : procs[p] = "idle")
    => Len(SharedList) <= Limit

\* Two appends overlapped, the list reached L + 2 entries, and both have
\* trimmed: it has L entries.
C13_Witness ==
    /\ measures.kind = "redis" /\ Limit >= 1
    /\ \A p \in Procs : procs[p] = "idle"
    /\ peak = Limit + 2
    /\ Len(SharedList) = Limit

\* C14: on the Redis store with limit L >= 1 and k processes, the list is
\* never longer than L + k, and it is longer than L only while some process
\* has pushed and not trimmed (it is between the two steps or crashed there).
C14_OvershootBounded ==
    (measures.kind = "redis" /\ Limit >= 1)
    => /\ Len(SharedList) <= Limit + MaxProcs
       /\ Len(SharedList) > Limit => \E p \in Procs : procs[p] # "idle"

\* Both processes have pushed and none has trimmed: L + 2 entries.
C14_Witness ==
    /\ measures.kind = "redis" /\ Limit >= 1
    /\ \A p \in Procs : procs[p] # "idle"
    /\ \E p \in Procs : procs[p] = "crashed"
    /\ Len(SharedList) = Limit + MaxProcs


-----------------------------------------------------------------------------
(* C15 *)

\* The samples a Redis list holds, newest first
FloatsOf(list) == [i \in 1..Len(list) |-> ParseFloat(list[i])]

\* The arithmetic mean of a Redis list, 0.0 for the empty list
MeanOf(list) ==
    IF list = <<>> THEN Zero ELSE Float(Sum(FloatsOf(list)), Len(list))

\* C15: while other processes append to the same key, a value returned by
\* getavg on the Redis store is the arithmetic mean of the list as it stood
\* at one instant of the call (limit L >= 1).
C15_MeanOfOneInstant ==
    (/\ measures.kind = "redis" /\ Limit >= 1
     /\ reader.pc = "done" /\ reader.exc = "")
    => \E i \in 1..Len(during) : reader.value = MeanOf(during[i])

\* C15, amended: on the Redis store with limit L >= 1, getavg raises
\* nothing and returns 0.0 when it found the list empty; otherwise it
\* returns the sum of the list as LRANGE read it divided by the length a
\* later LLEN read, the list at the LLEN being the one of the LRANGE or a
\* later one.
C15_SumAndLengthReadApart ==
    (measures.kind = "redis" /\ Limit >= 1 /\ reader.pc = "done")
    => /\ reader.exc = ""
       /\ reader.lenAt \in 1..Len(during)
       /\ IF reader.rangeAt = 0
          THEN reader.value = Zero /\ during[reader.lenAt] = <<>>
          ELSE /\ reader.rangeAt <= reader.lenAt
               /\ reader.value = Float(Sum(FloatsOf(during[reader.rangeAt])),
                                       Len(during[reader.lenAt]))

\* getavg has returned a value that is the mean of none of the states the
\* list went through during the call: a push came between LRANGE and LLEN.
C15_Witness ==
    /\ measures.kind = "redis" /\ Limit >= 1
    /\ reader.pc = "done" /\ reader.exc = ""
    /\ 0 < reader.rangeAt /\ reader.rangeAt < reader.lenAt
    /\ \A i \in 1..Len(during) : reader.value # MeanOf(during[i])


-----------------------------------------------------------------------------
(* C16 *)

\* C16: after every step of one sequence of appends run with the same limit
\* L >= 1 against the in-memory store and the Redis store, the two histories
\* of an identifier have the same length and iterating the Redis one yields
\* exactly the reverse of iterating the in-memory one (so they hold the same
\* multiset of samples).
C16_StoresAgree ==
    \A i \in Idents :
        (measures.kind = "redis" /\ Limit >= 1) =>
            /\ Len(redis[Key(i)]) = Len(mem[i])
            /\ FloatsOf(redis[Key(i)]) = Reverse(mem[i])

\* C16, amended: the two histories have the same length and iterating the
\* Redis one yields the reverse of iterating the in-memory one with every
\* sample passed through float(str(sample)): the sample itself on Python 3,
\* the sample rounded to the significant digits of str() on Python 2; an
\* identifier is in one store exactly when it is in the other.
C16_StoresAgreeUpToStr ==
    \A i \in Idents :
        (measures.kind = "redis" /\ Limit >= 1) =>
            /\ Len(redis[Key(i)]) = Len(mem[i])
            /\ FloatsOf(redis[Key(i)]) =
                   Reverse([k \in 1..Len(mem[i]) |-> ParseFloat(Str(mem[i][k]))])
            /\ (redis[Key(i)] # <<>>) <=> (i \in memKeys)

\* On Python 2 with limit 2, after appending 1, 11, 2 under "job" the
\* in-memory store holds 11, 2 and the Redis store reads back 2, 10.
C16_Witness ==
    /\ measures = RedisBackend(2)
    /\ py2
    /\ appended["job"] = <<1, 11, 2>>
    /\ mem["job"] = <<11, 2>>
    /\ FloatsOf(redis[Key("job")]) = <<2, 10>>


-----------------------------------------------------------------------------
(* C17 *)

\* C17: a call of getsum, getavg or get_time_estimate leaves the store as it
\* was (the histories, their order and, in the in-memory store, its keys),
\* and the in-memory store has an entry for an identifier exactly when an
\* append was made under it.
C17_QueriesLeaveStore ==
    /\ [][IsQuery(last'.op) => UNCHANGED <<mem, memKeys, redis>>]_vars
    /\ [](measures.kind = "mem" =>
             \A i \in Idents : (i \in memKeys) <=> (appended[i] # <<>>))

\* get_time_estimate was just called for "io", never appended to, on an
\* in-memory store that holds samples of "job": "io" has no entry.
C17_Witness ==
    /\ measures.kind = "mem"
    /\ last.op = "get_time_estimate" /\ last.ident = "io" /\ last.exc = ""
    /\ appended["job"] # <<>>
    /\ memKeys = {"job"}


-----------------------------------------------------------------------------
(* C18 *)

\* The key under which the second store keeps the history of ident
VisibleKey2(ident) == prefix2 \o ident

\* C18: an append under identifier x changes neither the length nor the
\* contents of the history of another identifier of the same store, and an
\* append through one of two Redis stores with different prefixes on one
\* connection changes no history visible through the other.
C18_IsolatedByPrefix ==
    [][/\ \A x \in Idents :
             (last'.op = "append" /\ last'.ident = x) =>
                /\ \A y \in Idents \ {x} :
                      Iterate(y)' = Iterate(y) /\ Contains(y)' = Contains(y)
                /\ \A y \in Idents2 :
                      redis'[VisibleKey2(y)] = redis[VisibleKey2(y)]
       /\ \A x \in Idents2 :
             (last'.op = "append2" /\ last'.ident = x) =>
                /\ \A y \in Idents2 \ {x} :
                      redis'[VisibleKey2(y)] = redis[VisibleKey2(y)]
                /\ \A y \in Idents : redis'[Key(y)] = redis[Key(y)]]_vars

\* C18, amended: an append under identifier x changes neither the length
\* nor the contents of the history of another identifier of the same store;
\* an append through one of two Redis stores on one connection changes no
\* history of the other store whose key, prefix + identifier, differs from
\* the key appended to.
C18_IsolatedByKey ==
    [][/\ \A x \in Idents :
             (last'.op = "append" /\ last'.ident = x) =>
                /\ \A y \in Idents \ {x} :
                      Iterate(y)' = Iterate(y) /\ Contains(y)' = Contains(y)
                /\ \A y \in Idents2 :
                      VisibleKey2(y) # Key(x) =>
                         redis'[VisibleKey2(y)] = redis[VisibleKey2(y)]
       /\ \A x \in Idents2 :
             (last'.op = "append2" /\ last'.ident = x) =>
                /\ \A y \in Idents2 \ {x} :
                      redis'[VisibleKey2(y)] = redis[VisibleKey2(y)]
                /\ \A y \in Idents :
                      Key(y) # VisibleKey2(x) =>
                         redis'[Key(y)] = redis[Key(y)]]_vars

\* The second store has prefix "j", holds a history of "io" and has just
\* appended under "ob": its key is "job", and the first store, under which
\* nothing was appended for "job", sees one sample there.
C18_Witness ==
    /\ measures.kind = "redis" /\ Limit >= 1
    /\ prefix2 = "j"
    /\ last.op = "append2" /\ last.ident = "ob"
    /\ appended["job"] = <<>>
    /\ Len(redis[Key("job")]) = 1
    /\ redis[VisibleKey2("io")] # <<>>

=============================================================================
